---------------------------- MODULE Spec2Model ----------------------------
(***************************************************************************)
(* Model of the autocleanup crate (src/src/lib.rs): an AutoCleanup value   *)
(* holds a Vec<Item> of files and directories; Drop walks the vector in    *)
(* reverse and removes each entry with std::fs::remove_file or             *)
(* std::fs::remove_dir, discarding every result.                           *)
(***************************************************************************)
EXTENDS Naturals, Sequences, FiniteSets

VARIABLES
  items,     \* AutoCleanup.items : Vec<Item>
  fs,        \* the filesystem: path -> "none" | "file" | "dir"
  fs0,       \* the filesystem as it was when the AutoCleanup was created
  denied,    \* existing paths whose removal the operating system refuses
  phase,     \* "live" | "dropping" | "dropped" | "exited" | "panicked"
  done,      \* iterations of the loop in drop() completed so far
  attempts,  \* log of the removal calls made by drop(): the item, the
             \* result, and the filesystem the call found
  holders,   \* the bindings (scopes) that currently own the value
  moves,     \* ownership transfers made so far
  drops,     \* number of times Drop::drop has been entered
  exit       \* how the owning scope ended

vars == <<items, fs, fs0, denied, phase, done, attempts, holders, moves,
          drops, exit>>

-----------------------------------------------------------------------------
(* Bounds *)

MaxItems == 3      \* registrations per AutoCleanup
MaxMoves == 1      \* ownership transfers before the final release

-----------------------------------------------------------------------------
(* Paths and the filesystem *)

TA == "/tmp/t-a"
TB == "/tmp/t-b"
TBF == "/tmp/t-b/f"

Paths == {TA, TB, TBF}

\* The directory entries of p among the modelled paths.
Children(p) == IF p = TB THEN {TBF} ELSE {}

Kinds == {"none", "file", "dir"}

\* A filesystem is well formed when an entry exists only inside a directory.
WellFormed(f) ==
  \A p \in Paths : \A c \in Children(p) : f[c] # "none" => f[p] = "dir"

Entries(f, p) == {c \in Children(p) : f[c] # "none"}

\* enum Item { File(PathBuf), Dir(PathBuf) }
File(p) == [kind |-> "File", path |-> p]
Dir(p) == [kind |-> "Dir", path |-> p]
Item == {File(p) : p \in Paths} \cup {Dir(p) : p \in Paths}

\* std::fs::remove_file(p): unlink; fails on a missing path, on a refused
\* removal and on a directory.
RemoveFile(f, den, p) ==
  IF f[p] = "none" THEN [res |-> "NotFound", fs |-> f]
  ELSE IF p \in den THEN [res |-> "PermissionDenied", fs |-> f]
  ELSE IF f[p] = "dir" THEN [res |-> "IsADirectory", fs |-> f]
  ELSE [res |-> "Ok", fs |-> [f EXCEPT ![p] = "none"]]

\* A recursive removal (remove_dir_all), which the crate does not use.
RemoveDirAll(f, den, p) ==
  IF f[p] = "none" THEN [res |-> "NotFound", fs |-> f]
  ELSE IF p \in den THEN [res |-> "PermissionDenied", fs |-> f]
  ELSE IF f[p] = "file" THEN [res |-> "NotADirectory", fs |-> f]
  ELSE [res |-> "Ok",
        fs |-> [q \in Paths |->
                  IF q = p \/ q \in Children(p) THEN "none" ELSE f[q]]]

\* std::fs::remove_dir(p): rmdir; fails on a missing path, on a refused
\* removal, on a non-directory and on a directory that has entries.
RemoveDir(f, den, p) ==
  IF f[p] = "none" THEN [res |-> "NotFound", fs |-> f]
  ELSE IF p \in den THEN [res |-> "PermissionDenied", fs |-> f]
  ELSE IF f[p] = "file" THEN [res |-> "NotADirectory", fs |-> f]
  ELSE IF Entries(f, p) # {} THEN [res |-> "DirectoryNotEmpty", fs |-> f]
  ELSE [res |-> "Ok", fs |-> [f EXCEPT ![p] = "none"]]

\* The two arms of the match exchanged: remove_dir for a File, remove_file
\* for a Dir.
RemoveSwapped(f, den, n) ==
  IF n.kind = "File" THEN RemoveDir(f, den, n.path)
  ELSE RemoveFile(f, den, n.path)

\* match n { Item::File(p) => remove_file(p), Item::Dir(p) => remove_dir(p) }
Remove(f, den, n) ==
  IF n.kind = "File" THEN RemoveFile(f, den, n.path)
  ELSE RemoveDir(f, den, n.path)

\* A result that is unwrapped instead of discarded.
Unwrap(r) == IF r.res = "Ok" THEN "continue" ELSE "panic"

\* A result whose error ends the loop (as `?` or `break` would).
StopOnError(r) == IF r.res = "Ok" THEN "continue" ELSE "break"

\* `let _ = ...`: the result of the removal is discarded, whatever it is.
Discard(r) == "continue"

\* Forward iteration: the k-th visit (k = 0, 1, ...) is element k + 1.
FwdIndex(n, k) == k + 1

\* self.items.iter().rev(): the k-th visit (k = 0, 1, ...) of a vector of n
\* elements is element n - k (1-based).
RevIndex(n, k) == n - k

\* A transfer that leaves the source binding usable (a copy).
CopyOwner(h, s, t) == h \cup {t}

\* A move: AutoCleanup is neither Copy nor Clone, so the source binding is
\* dead after the transfer and only the destination owns the value.
MoveOwner(h, s, t) == (h \ {s}) \cup {t}

-----------------------------------------------------------------------------
(* Initial state: AutoCleanup::new() in some filesystem *)

Init ==
  /\ items = <<>>
  /\ fs0 \in {f \in [Paths -> Kinds] : WellFormed(f)}
  /\ fs = fs0
  /\ denied \in SUBSET {p \in Paths : fs0[p] # "none"}
  /\ phase = "live"
  /\ done = 0
  /\ attempts = <<>>
  /\ holders = {0}
  /\ moves = 0
  /\ drops = 0
  /\ exit = "none"

-----------------------------------------------------------------------------
(* Registration *)

\* push_file that removes the file at once instead of registering it only.
push_file_eager(fname) ==
  /\ phase = "live"
  /\ Len(items) < MaxItems
  /\ items' = Append(items, File(fname))
  /\ fs' = RemoveFile(fs, denied, fname).fs
  /\ UNCHANGED <<fs0, denied, phase, done, attempts, holders, moves, drops,
                 exit>>

\* push that replaces the last entry instead of appending.
push_replace(item) ==
  /\ phase = "live"
  /\ Len(items) < MaxItems
  /\ items' = IF items = <<>> THEN <<item>>
              ELSE [items EXCEPT ![Len(items)] = item]
  /\ UNCHANGED <<fs, fs0, denied, phase, done, attempts, holders, moves,
                 drops, exit>>

\* pub fn push(&mut self, item: Item)
push(item) ==
  /\ phase = "live"
  /\ Len(items) < MaxItems
  /\ items' = Append(items, item)
  /\ UNCHANGED <<fs, fs0, denied, phase, done, attempts, holders, moves,
                 drops, exit>>

\* pub fn push_file<P: AsRef<Path>>(&mut self, fname: P)
push_file(fname) ==
  /\ phase = "live"
  /\ Len(items) < MaxItems
  /\ items' = Append(items, File(fname))
  /\ UNCHANGED <<fs, fs0, denied, phase, done, attempts, holders, moves,
                 drops, exit>>

\* pub fn push_dir<P: AsRef<Path>>(&mut self, dname: P)
push_dir(dname) ==
  /\ phase = "live"
  /\ Len(items) < MaxItems
  /\ items' = Append(items, Dir(dname))
  /\ UNCHANGED <<fs, fs0, denied, phase, done, attempts, holders, moves,
                 drops, exit>>

-----------------------------------------------------------------------------
(* Ownership and the end of the value's lifetime *)

ExitKinds == {"return", "early_return", "unwind"}

\* The value is passed to another scope (by value).
move_to ==
  /\ phase = "live"
  /\ moves < MaxMoves
  /\ \E s \in holders : holders' = MoveOwner(holders, s, moves + 1)
  /\ moves' = moves + 1
  /\ UNCHANGED <<items, fs, fs0, denied, phase, done, attempts, drops, exit>>

\* An owning scope ends (normal return, early return or unwinding): the
\* compiler-inserted drop glue enters Drop::drop. A list without entries makes
\* no iteration at all.
scope_end(kind) ==
  /\ phase \in {"live", "dropped"}
  /\ \E s \in holders : holders' = holders \ {s}
  /\ drops' = drops + 1
  /\ exit' = kind
  /\ done' = 0
  /\ phase' = IF items = <<>> THEN "dropped" ELSE "dropping"
  /\ UNCHANGED <<items, fs, fs0, denied, attempts, moves>>

\* std::process::exit(): the process ends and no Drop implementation runs.
process_exit ==
  /\ phase = "live"
  /\ phase' = "exited"
  /\ UNCHANGED <<items, fs, fs0, denied, done, attempts, holders, moves,
                 drops, exit>>

\* One iteration of `for n in self.items.iter().rev()` in Drop::drop.
drop ==
  /\ phase = "dropping"
  /\ done < Len(items)
  /\ LET n == items[RevIndex(Len(items), done)]
         r == Remove(fs, denied, n)
         next == Discard(r)
     IN /\ fs' = r.fs
        /\ attempts' = Append(attempts,
                               [item |-> n, res |-> r.res, before |-> fs])
        /\ done' = done + 1
        /\ phase' = IF next = "panic" THEN "panicked"
                    ELSE IF next = "break" \/ done + 1 = Len(items)
                         THEN "dropped"
                    ELSE "dropping"
  /\ UNCHANGED <<items, fs0, denied, holders, moves, drops, exit>>

Next ==
  \/ \E item \in Item : push(item)
  \/ \E p \in Paths : push_file(p)
  \/ \E p \in Paths : push_dir(p)
  \/ move_to
  \/ \E kind \in ExitKinds : scope_end(kind)
  \/ process_exit
  \/ drop

Spec == Init /\ [][Next]_vars

-----------------------------------------------------------------------------
(* Auxiliary definitions for the properties *)

Positions == 1..Len(items)

Tries == 1..Len(attempts)

\* The paths removed successfully, in the order of their removal.
Removed ==
  LET ok == SelectSeq(attempts, LAMBDA a : a.res = "Ok")
  IN [k \in 1..Len(ok) |-> ok[k].item.path]

\* How often item a was registered / was attempted.
Registered(a) == Cardinality({i \in Positions : items[i] = a})
Attempted(a) == Cardinality({k \in Tries : attempts[k].item = a})

Failed(k) == attempts[k].res # "Ok"

-----------------------------------------------------------------------------
(* C1 *)

\* C1: drop() attempts the removals in exactly the reverse of the
\* registration order: the k-th attempt is for the k-th item counted from
\* the tail of the list, files and directories alike, and a finished
\* teardown has gone through the whole list.
C1_ReverseOrder ==
  /\ Len(attempts) <= Len(items)
  /\ \A k \in Tries : attempts[k].item = items[Len(items) + 1 - k]
  /\ phase = "dropped" => Len(attempts) = Len(items)

C1_Witness ==
  /\ phase = "dropped"
  /\ Len(items) = 3
  /\ items[1].kind = "File" /\ items[2].kind = "Dir" /\ items[3].kind = "File"
  /\ items[1] # items[3]
  /\ attempts[1].item = items[3]
  /\ attempts[3].item = items[1]

-----------------------------------------------------------------------------
(* C2 *)

\* C2: a finished teardown of a list of N items has made exactly N removal
\* attempts, one for each registration of each item, however many of them
\* failed; a list without registrations makes no attempt and leaves the
\* filesystem as it was.
C2_AllAttempted ==
  phase = "dropped" =>
    /\ Len(attempts) = Len(items)
    /\ \A a \in Item : Attempted(a) = Registered(a)
    /\ items = <<>> => attempts = <<>> /\ fs = fs0

C2_Witness ==
  /\ phase = "dropped"
  /\ Len(items) = 3
  /\ Len(attempts) = 3
  /\ Failed(1) /\ Failed(2) /\ ~Failed(3)

-----------------------------------------------------------------------------
(* C3 *)

\* C3: drop() never panics and never stops early, whatever the removals
\* return: no state has a panic, and a teardown in progress always has its
\* next iteration to run.
C3_NeverPanics ==
  /\ phase # "panicked"
  /\ phase = "dropping" => done < Len(items) /\ Len(attempts) = done

\* The crate's test: push_file of a path that does not exist, then scope end.
C3_Witness ==
  /\ phase = "dropped"
  /\ items = <<File(TA)>>
  /\ fs0[TA] = "none"
  /\ Len(attempts) = 1
  /\ attempts[1].res = "NotFound"

-----------------------------------------------------------------------------
(* C4 *)

-----------------------------------------------------------------------------
(* C5 *)

\* C5: new, push, push_file and push_dir do not touch the filesystem and do
\* not fail: as long as the value is live the filesystem is the one it was
\* created in and no removal has been attempted, whatever was registered.
C5_RegistrationPure ==
  phase = "live" => fs = fs0 /\ attempts = <<>> /\ done = 0

C5_Witness ==
  /\ phase = "live"
  /\ Len(items) = 3
  /\ \E i \in Positions : items[i].kind = "File" /\ fs[items[i].path] = "file"
  /\ \E i \in Positions : fs[items[i].path] = "none"
  /\ \E i \in Positions : items[i].kind = "Dir" /\ fs[items[i].path] = "dir"

-----------------------------------------------------------------------------
(* C6 *)

\* A removal of directory d was attempted while d had entries.
AttemptedNonEmpty(k, d) ==
  /\ attempts[k].item = Dir(d)
  /\ attempts[k].before[d] = "dir"
  /\ Entries(attempts[k].before, d) # {}

\* No registered item names an entry of d.
NoEntryRegistered(d) ==
  \A i \in Positions : items[i].path \notin Children(d)

\* C6 as stated: whenever the removal of a registered directory is attempted
\* while the directory has an entry, the directory still exists after
\* teardown and its entries are as they were.
C6_Original ==
  phase = "dropped" =>
    \A d \in Paths : \A k \in Tries :
      AttemptedNonEmpty(k, d) =>
        /\ fs[d] = "dir"
        /\ \A c \in Children(d) : fs[c] = attempts[k].before[c]

\* C6 (amended): the removal of a directory attempted while the directory
\* has an entry fails; if no registered item names an entry of that
\* directory, then after teardown the directory still exists and its entries
\* are as they were.
C6_NonRecursive ==
  \A d \in Paths : \A k \in Tries :
    AttemptedNonEmpty(k, d) =>
      /\ Failed(k)
      /\ phase = "dropped" /\ NoEntryRegistered(d) =>
           /\ fs[d] = "dir"
           /\ \A c \in Children(d) : fs[c] = fs0[c]

C6_Witness ==
  /\ phase = "dropped"
  /\ items = <<Dir(TB)>>
  /\ TB \notin denied
  /\ fs0[TBF] = "file"
  /\ AttemptedNonEmpty(1, TB)
  /\ attempts[1].res = "DirectoryNotEmpty"
  /\ fs = fs0

-----------------------------------------------------------------------------
(* C7 *)

\* C7: a path that was a regular file when the list was created, that is
\* registered as a file and whose removal the operating system does not
\* refuse, does not exist after teardown, whatever else is registered and
\* whatever the other removals return.
C7_FileRemoved ==
  phase = "dropped" =>
    \A p \in Paths :
      (fs0[p] = "file" /\ p \notin denied
         /\ \E i \in Positions : items[i] = File(p))
      => fs[p] = "none"

C7_Witness ==
  /\ phase = "dropped"
  /\ Len(items) = 3
  /\ items[2] = File(TA)
  /\ fs0[TA] = "file"
  /\ TA \notin denied
  /\ Failed(1) /\ Failed(3) /\ ~Failed(2)
  /\ fs[TA] = "none"

-----------------------------------------------------------------------------
(* C8 *)

\* push_file("/tmp/t-a"); push_dir("/tmp/t-b") with /tmp/t-a a fresh file and
\* /tmp/t-b a fresh, empty directory, both removable; the scope has ended.
C8_Scenario ==
  /\ phase = "dropped"
  /\ items = <<File(TA), Dir(TB)>>
  /\ fs0[TA] = "file" /\ fs0[TB] = "dir" /\ fs0[TBF] = "none"
  /\ TA \notin denied /\ TB \notin denied

\* C8 as stated: /tmp/t-a is deleted first, then /tmp/t-b, and neither
\* exists in the end.
C8_Original ==
  C8_Scenario =>
    Removed = <<TA, TB>> /\ fs[TA] = "none" /\ fs[TB] = "none"

\* C8 (amended): /tmp/t-b, registered last, is deleted first, then
\* /tmp/t-a, and neither exists in the end.
C8_ScenarioOrder ==
  C8_Scenario =>
    Removed = <<TB, TA>> /\ fs[TA] = "none" /\ fs[TB] = "none"

C8_Witness == C8_Scenario /\ Len(attempts) = 2 /\ Removed[1] = TB

-----------------------------------------------------------------------------
(* C10 *)

\* Directory /tmp/t-b holds the file /tmp/t-b/f as its only entry, and both
\* may be removed.
Nested ==
  /\ fs0[TB] = "dir" /\ fs0[TBF] = "file"
  /\ TB \notin denied /\ TBF \notin denied

DirThenFile ==
  \E i, j \in Positions : i < j /\ items[i] = Dir(TB) /\ items[j] = File(TBF)

FileThenDirOnly ==
  /\ \E i \in Positions : items[i] = File(TBF)
  /\ \E j \in Positions : items[j] = Dir(TB)
  /\ \A i, j \in Positions :
       items[i] = File(TBF) /\ items[j] = Dir(TB) => i < j

\* C10: with the directory registered before the file it contains, teardown
\* removes both; with the file registered before the directory, teardown
\* removes the file but the directory remains, its removal having been
\* attempted while it was not empty and not tried again.
C10_NestedCleanup ==
  (phase = "dropped" /\ Nested) =>
    /\ DirThenFile => fs[TBF] = "none" /\ fs[TB] = "none"
    /\ FileThenDirOnly =>
         /\ fs[TBF] = "none" /\ fs[TB] = "dir"
         /\ \A k \in Tries :
              attempts[k].item = Dir(TB) =>
                attempts[k].res = "DirectoryNotEmpty"
         /\ Attempted(Dir(TB)) = Registered(Dir(TB))

C10_Witness ==
  /\ phase = "dropped"
  /\ Nested
  /\ items = <<File(TBF), Dir(TB)>>
  /\ fs[TB] = "dir" /\ fs[TBF] = "none"
  /\ attempts[1].res = "DirectoryNotEmpty"
  /\ attempts[2].res = "Ok"

-----------------------------------------------------------------------------
(* C9 *)

\* C9: the list is append-only: a registration appends exactly one item at
\* the tail (push_file a File of its path, push_dir a Dir of its path, push
\* its argument) and leaves the items before it as they were; nothing else
\* changes the list, neither before nor during teardown.
C9_AppendOnly ==
  [][ /\ \A a \in Item : push(a) => items' = Append(items, a)
      /\ \A p \in Paths : push_file(p) => items' = Append(items, File(p))
      /\ \A p \in Paths : push_dir(p) => items' = Append(items, Dir(p))
      /\ items' # items =>
           /\ phase = "live" /\ phase' = "live"
           /\ Len(items') = Len(items) + 1
           /\ SubSeq(items', 1, Len(items)) = items ]_vars

C9_Witness ==
  /\ phase = "live"
  /\ Len(items) = 3
  /\ items[1] = Dir(TB) /\ items[2] = File(TBF) /\ items[3] = Dir(TB)

=============================================================================
